---- MODULE Spec2Model ----
(***************************************************************************)
(* Model of the RAG orchestrator (src/src/core/rag-application.ts):        *)
(* ingestion (addLoader, batchLoadChunks, batchLoadEmbeddings,             *)
(* incrementalLoader), deletion (deleteLoader, deleteAllEmbeddings) and    *)
(* retrieval (getEmbeddings, getContext).                                  *)
(*                                                                         *)
(* The vector store and the cache are collaborators known through their    *)
(* interfaces; the store is modelled as a bag of inserted chunks, the      *)
(* cache as a partial function from loader id to chunkCount.               *)
(* Scores are modelled as integers (score * 10).                           *)
(***************************************************************************)
EXTENDS Integers, Sequences, FiniteSets, Bags, TLC

\* ---------------------------------------------------------------- bounds
\* imported from global/constants (rag-application.ts:7); scaled down
DEFAULT_INSERT_BATCH_SIZE == 2
\* largest number of chunks one generator yields
MaxChunks == 3
\* largest number of ingestion runs (addLoader + incremental) in a behaviour
MaxRuns == 2
\* longest result set handed back by similaritySearch / the reranker
MaxResults == 4
\* largest configured searchResultCount
MaxK == 3
\* largest number of notifications emitted on top of the MaxRuns runs
MaxEmits == 1
\* longest list of loaders handed to the builder
MaxConfigured == 2

\* ---------------------------------------------------------------- loaders
\* three loader instances; p and q are two instances of the same source
Instances == {"p", "q", "r"}
LoaderIds == {"id1", "id2"}

getUniqueId(loader) == IF loader = "r" THEN "id2" ELSE "id1"
canIncrementallyLoad(loader) == loader \in {"p", "r"}

VARIABLES
    cacheConfigured,   \* this.cache is defined
    dbReliable,        \* the vector store never fails a deleteKeys
    vectorDb,          \* bag of chunks held by the vector store
    cache,             \* loader id -> chunkCount, for the ids with a record
    loaders,           \* this.loaders
    subs,              \* per instance: 'incrementalChunkAvailable' listeners
    runs,              \* number of ingestion runs started so far
    tainted,           \* ids touched by an incremental run or a reset
    last,              \* the last call: arguments, values read, result
    \* retrieval
    searchResultCount,
    embeddingRelevanceCutOff,
    unfilteredResultSet,  \* result of similaritySearch (after the reranker)
    qop,               \* position of the retrieval call
    qret,              \* its result
    \* lifecycle
    ipc,               \* position of init()
    iter,              \* the array the for-await of init() walks
    task,              \* per element of iter: the addLoader call made for it
    embedding,         \* the embedding provider
    collaborators      \* the init / createVectorIndex calls received

vars == <<cacheConfigured, dbReliable, vectorDb, cache, loaders, subs, runs,
          tainted, last, searchResultCount, embeddingRelevanceCutOff,
          unfilteredResultSet, qop, qret,
          ipc, iter, task, embedding, collaborators>>

ingestVars == <<cacheConfigured, dbReliable, vectorDb, cache, loaders, subs,
                runs, tainted, last>>
queryVars == <<searchResultCount, embeddingRelevanceCutOff,
               unfilteredResultSet, qop, qret>>
lifeVars == <<ipc, iter, task, embedding, collaborators>>

\* ---------------------------------------------------------------- vector store (BaseDb)
EmptyDb == EmptyBag

RECURSIVE insertChunks(_, _)
insertChunks(db, chunks) ==
    IF chunks = <<>> THEN db
    ELSE insertChunks(db (+) SetToBag({Head(chunks)}), Tail(chunks))

getVectorCount(db) == BagCardinality(db)

deleteKeys(db, uniqueLoaderId) ==
    [c \in {d \in DOMAIN db : d.metadata.uniqueLoaderId # uniqueLoaderId} |-> db[c]]

\* number of stored chunks tagged with a loader id
TaggedCount(db, uniqueLoaderId) == getVectorCount(db) - getVectorCount(deleteKeys(db, uniqueLoaderId))

\* ---------------------------------------------------------------- cache (BaseCache)
NoCache == [x \in {} |-> 0]

hasLoader(c, id) == id \in DOMAIN c
cacheAddLoader(c, id, count) == [x \in DOMAIN c \cup {id} |-> IF x = id THEN count ELSE c[x]]
cacheDeleteLoader(c, id) == [x \in DOMAIN c \ {id} |-> c[x]]

\* ---------------------------------------------------------------- ingestion
\* the generator of a loader: n chunks of the run's content
Generator(run, n) == [k \in 1..n |-> [pageContent |-> <<run, k>>]]

getChunkUniqueId(loaderUniqueId, incrementId) == <<loaderUniqueId, incrementId>>

\* embedChunks: the texts of one embedDocuments call
embedChunks(chunks) == [k \in 1..Len(chunks) |-> chunks[k].pageContent]

\* variant: the empty batch is not returned early (line 78 missing)
batchLoadEmbeddings_noEmptyGuard(loaderUniqueId, formattedChunks, db) ==
    [inserted |-> Len(formattedChunks),
     db |-> insertChunks(db, formattedChunks),
     calls |-> <<embedChunks(formattedChunks)>>]

\* calls: the embedDocuments calls made, each with its texts
batchLoadEmbeddings(loaderUniqueId, formattedChunks, db) ==
    IF Len(formattedChunks) = 0 THEN [inserted |-> 0, db |-> db, calls |-> <<>>]
    ELSE [inserted |-> Len(formattedChunks),
          db |-> insertChunks(db, formattedChunks),
          calls |-> <<embedChunks(formattedChunks)>>]

RECURSIVE batchLoadChunksLoop(_, _, _, _, _, _, _)
batchLoadChunksLoop(uniqueId, gen, i, batchSize, newInserts, formattedChunks, db) ==
    IF gen = <<>>
    THEN LET r == batchLoadEmbeddings(uniqueId, formattedChunks, db)
         IN  [newInserts |-> newInserts + r.inserted,
              formattedChunks |-> formattedChunks,
              db |-> r.db,
              embedCalls |-> r.calls]
    ELSE LET chunk == Head(gen)
             formattedChunk == [pageContent |-> chunk.pageContent,
                                metadata |-> [uniqueLoaderId |-> uniqueId,
                                              id |-> getChunkUniqueId(uniqueId, i)]]
             pushed == Append(formattedChunks, formattedChunk)
         IN  IF (batchSize + 1) % DEFAULT_INSERT_BATCH_SIZE = 0
             THEN LET r == batchLoadEmbeddings(uniqueId, pushed, db)
                      rest == batchLoadChunksLoop(uniqueId, Tail(gen), i + 1, 0,
                                                  newInserts + r.inserted, <<>>, r.db)
                  IN  [rest EXCEPT !.embedCalls = r.calls \o @]
             ELSE batchLoadChunksLoop(uniqueId, Tail(gen), i + 1, batchSize + 1,
                                      newInserts, pushed, db)

\* variant: the flush after the loop (line 120) is missing
batchLoadChunks_dropTail(uniqueId, incrementalGenerator, db) ==
    batchLoadChunksLoop(uniqueId,
                        SubSeq(incrementalGenerator, 1,
                               Len(incrementalGenerator)
                                 - (Len(incrementalGenerator) % DEFAULT_INSERT_BATCH_SIZE)),
                        0, 0, 0, <<>>, db)

batchLoadChunks(uniqueId, incrementalGenerator, db) ==
    batchLoadChunksLoop(uniqueId, incrementalGenerator, 0, 0, 0, <<>>, db)

\* variant: the tracked list is not filtered
filterLoaders_keepAll(ls, id) == ls

\* this.loaders.filter((x) => x.getUniqueId() != id)
filterLoaders(ls, id) == SelectSeq(ls, LAMBDA x : getUniqueId(x) # id)

\* ---------------------------------------------------------------- deletion
\* variant: the confirmation defaults to true
areYouSureOf_defaultTrue(args) == IF Len(args) = 0 THEN TRUE ELSE args[1]

\* areYouSure: boolean = false; args is the list of arguments after the id
areYouSureOf(args) == IF Len(args) = 0 THEN FALSE ELSE args[1]

\* variant: a confirmed deleteLoader resets the store instead of deleting by key
deleteLoaderEffect_reset(st, uniqueLoaderId, args, ok) ==
    IF ~(IF Len(args) = 0 THEN FALSE ELSE args[1])
    THEN [db |-> st.db, cache |-> st.cache, loaders |-> st.loaders, ret |-> FALSE]
    ELSE [db |-> IF ok THEN EmptyBag ELSE st.db,
          cache |-> IF st.hasCache /\ ok
                    THEN [x \in DOMAIN st.cache \ {uniqueLoaderId} |-> st.cache[x]]
                    ELSE st.cache,
          loaders |-> SelectSeq(st.loaders, LAMBDA x : getUniqueId(x) # uniqueLoaderId),
          ret |-> ok]

\* effect of deleteLoader on the orchestrator state st = [db, cache, loaders];
\* ok is the value vectorDb.deleteKeys returns
deleteLoaderEffect(st, uniqueLoaderId, args, ok) ==
    IF ~areYouSureOf(args)
    THEN [db |-> st.db, cache |-> st.cache, loaders |-> st.loaders, ret |-> FALSE]
    ELSE LET db2 == IF ok THEN deleteKeys(st.db, uniqueLoaderId) ELSE st.db
             deleteResult == ok
         IN  [db |-> db2,
              cache |-> IF st.hasCache /\ deleteResult
                        THEN cacheDeleteLoader(st.cache, uniqueLoaderId)
                        ELSE st.cache,
              loaders |-> filterLoaders(st.loaders, uniqueLoaderId),
              ret |-> deleteResult]

deleteAllEmbeddingsEffect(db, args) ==
    IF ~areYouSureOf(args) THEN [db |-> db, ret |-> FALSE]
    ELSE [db |-> EmptyDb, ret |-> TRUE]

CurrentState == [db |-> vectorDb, cache |-> cache, loaders |-> loaders,
                 hasCache |-> cacheConfigured]

DeleteOutcomes == IF dbReliable THEN {TRUE} ELSE BOOLEAN

NoCall == [op |-> "none", id |-> "none", loader |-> "none", n |-> 0,
           args |-> <<>>, ret |-> FALSE, entriesAdded |-> 0,
           hadRecord |-> FALSE, prev |-> 0, removed |-> 0,
           thrown |-> FALSE, failAt |-> 0, handlerRuns |-> 0, embedCalls |-> <<>>]

\* ---------------------------------------------------------------- actions
addLoader(loader, n, ok) ==
    LET uniqueId == getUniqueId(loader)
        chunks == Generator(runs + 1, n)
        hadRecord == cacheConfigured /\ hasLoader(cache, uniqueId)
        previousChunkCount == IF hadRecord THEN cache[uniqueId] ELSE 0
        st1 == IF hadRecord /\ previousChunkCount > 0
               THEN deleteLoaderEffect(CurrentState, uniqueId, <<TRUE>>, ok)
               ELSE [db |-> vectorDb, cache |-> cache, loaders |-> loaders, ret |-> FALSE]
        r == batchLoadChunks(uniqueId, chunks, st1.db)
    IN  /\ runs < MaxRuns
        /\ runs' = runs + 1
        /\ vectorDb' = r.db
        /\ cache' = IF cacheConfigured
                    THEN cacheAddLoader(st1.cache, uniqueId, Len(r.formattedChunks))
                    ELSE st1.cache
        /\ subs' = IF canIncrementallyLoad(loader)
                   THEN [subs EXCEPT ![loader] = @ + 1]
                   ELSE subs
        /\ loaders' = Append(filterLoaders(st1.loaders, uniqueId), loader)
        /\ last' = [op |-> "addLoader", id |-> uniqueId, loader |-> loader, n |-> n,
                    args |-> <<>>, ret |-> FALSE, entriesAdded |-> r.newInserts,
                    hadRecord |-> hadRecord,
                    prev |-> previousChunkCount,
                    removed |-> getVectorCount(vectorDb) - getVectorCount(st1.db),
                    thrown |-> FALSE, failAt |-> 0, handlerRuns |-> 0, embedCalls |-> r.embedCalls]
        /\ UNCHANGED <<cacheConfigured, dbReliable, tainted>>
        /\ UNCHANGED queryVars
        /\ UNCHANGED lifeVars

\* ---------------------------------------------------------------- a failing batch
\* variant: the batch is stored before the failure surfaces
batchLoadEmbeddingsThrows_storesFirst(loaderUniqueId, formattedChunks, db, fails) ==
    IF Len(formattedChunks) = 0 THEN [thrown |-> FALSE, inserted |-> 0, db |-> db]
    ELSE [thrown |-> fails, inserted |-> Len(formattedChunks),
          db |-> insertChunks(db, formattedChunks)]

\* batchLoadEmbeddings when embedDocuments or insertChunks may reject: the
\* rejection leaves the batch out of the store and is not caught
batchLoadEmbeddingsThrows(loaderUniqueId, formattedChunks, db, fails) ==
    IF Len(formattedChunks) = 0 THEN [thrown |-> FALSE, inserted |-> 0, db |-> db]
    ELSE IF fails THEN [thrown |-> TRUE, inserted |-> 0, db |-> db]
    ELSE [thrown |-> FALSE, inserted |-> Len(formattedChunks),
          db |-> insertChunks(db, formattedChunks)]

\* batchLoadChunks when the failAt-th embedding batch fails; calls counts the
\* batches embedded so far
RECURSIVE batchLoadChunksThrows(_, _, _, _, _, _, _, _)
batchLoadChunksThrows(uniqueId, gen, i, batchSize, formattedChunks, db, calls, failAt) ==
    IF gen = <<>>
    THEN LET r == batchLoadEmbeddingsThrows(uniqueId, formattedChunks, db, calls + 1 = failAt)
         IN  [thrown |-> r.thrown, db |-> r.db]
    ELSE LET chunk == Head(gen)
             formattedChunk == [pageContent |-> chunk.pageContent,
                                metadata |-> [uniqueLoaderId |-> uniqueId,
                                              id |-> getChunkUniqueId(uniqueId, i)]]
             pushed == Append(formattedChunks, formattedChunk)
         IN  IF (batchSize + 1) % DEFAULT_INSERT_BATCH_SIZE = 0
             THEN LET r == batchLoadEmbeddingsThrows(uniqueId, pushed, db, calls + 1 = failAt)
                  IN  IF r.thrown THEN [thrown |-> TRUE, db |-> r.db]
                      ELSE batchLoadChunksThrows(uniqueId, Tail(gen), i + 1, 0, <<>>,
                                                 r.db, calls + 1, failAt)
             ELSE batchLoadChunksThrows(uniqueId, Tail(gen), i + 1, batchSize + 1,
                                        pushed, db, calls, failAt)

\* addLoader when batchLoadChunks (line 146) throws: lines 147-160 are skipped
addLoaderThrows(loader, n, ok, failAt) ==
    LET uniqueId == getUniqueId(loader)
        chunks == Generator(runs + 1, n)
        hadRecord == cacheConfigured /\ hasLoader(cache, uniqueId)
        previousChunkCount == IF hadRecord THEN cache[uniqueId] ELSE 0
        st1 == IF hadRecord /\ previousChunkCount > 0
               THEN deleteLoaderEffect(CurrentState, uniqueId, <<TRUE>>, ok)
               ELSE [db |-> vectorDb, cache |-> cache, loaders |-> loaders, ret |-> FALSE]
        r == batchLoadChunksThrows(uniqueId, chunks, 0, 0, <<>>, st1.db, 0, failAt)
    IN  /\ runs < MaxRuns
        /\ r.thrown
        /\ runs' = runs + 1
        /\ vectorDb' = r.db
        /\ cache' = st1.cache
        /\ loaders' = st1.loaders
        /\ last' = [op |-> "addLoader", id |-> uniqueId, loader |-> loader, n |-> n,
                    args |-> <<>>, ret |-> FALSE, entriesAdded |-> 0,
                    hadRecord |-> hadRecord,
                    prev |-> previousChunkCount,
                    removed |-> getVectorCount(vectorDb) - getVectorCount(st1.db),
                    thrown |-> TRUE, failAt |-> failAt, handlerRuns |-> 0, embedCalls |-> <<>>]
        /\ UNCHANGED <<cacheConfigured, dbReliable, subs, tainted>>
        /\ UNCHANGED queryVars
        /\ UNCHANGED lifeVars

\* variant: the listener also rewrites the loader's cache record
incrementalLoader_resetsRecord(loader, n) ==
    LET uniqueId == getUniqueId(loader)
        r == batchLoadChunks(uniqueId, Generator(runs + 1, n), vectorDb)
    IN  /\ subs[loader] > 0
        /\ runs < MaxRuns
        /\ runs' = runs + 1
        /\ vectorDb' = r.db
        /\ tainted' = tainted \cup {uniqueId}
        /\ cache' = IF cacheConfigured
                    THEN cacheAddLoader(cache, uniqueId, Len(r.formattedChunks))
                    ELSE cache
        /\ last' = [op |-> "incrementalLoader", id |-> uniqueId, loader |-> loader,
                    n |-> n, args |-> <<>>, ret |-> FALSE,
                    entriesAdded |-> r.newInserts,
                    hadRecord |-> FALSE, prev |-> 0, removed |-> 0,
                    thrown |-> FALSE, failAt |-> 0, handlerRuns |-> 0, embedCalls |-> r.embedCalls]
        /\ UNCHANGED <<cacheConfigured, dbReliable, loaders, subs>>
        /\ UNCHANGED queryVars
        /\ UNCHANGED lifeVars

\* one invocation of the listener registered at rag-application.ts:153
incrementalLoader(loader, n) ==
    LET uniqueId == getUniqueId(loader)
        r == batchLoadChunks(uniqueId, Generator(runs + 1, n), vectorDb)
    IN  /\ subs[loader] > 0
        /\ runs < MaxRuns
        /\ runs' = runs + 1
        /\ vectorDb' = r.db
        /\ tainted' = tainted \cup {uniqueId}
        /\ last' = [op |-> "incrementalLoader", id |-> uniqueId, loader |-> loader,
                    n |-> n, args |-> <<>>, ret |-> FALSE,
                    entriesAdded |-> r.newInserts,
                    hadRecord |-> FALSE, prev |-> 0, removed |-> 0,
                    thrown |-> FALSE, failAt |-> 0, handlerRuns |-> 0, embedCalls |-> r.embedCalls]
        /\ UNCHANGED <<cacheConfigured, dbReliable, cache, loaders, subs>>
        /\ UNCHANGED queryVars
        /\ UNCHANGED lifeVars

\* the part of a shared one-shot generator that the j-th consumer receives
\* when f assigns every yielded chunk to the consumer whose next() got it
RECURSIVE share(_, _, _)
share(gen, f, j) ==
    IF gen = <<>> THEN <<>>
    ELSE (IF Head(f) = j THEN <<Head(gen)>> ELSE <<>>) \o share(Tail(gen), Tail(f), j)

\* the listeners j..k of one instance, each running incrementalLoader
\* (lines 153-155) on the generator object they were all handed
RECURSIVE dispatch(_, _, _, _, _, _)
dispatch(uniqueId, gen, f, j, k, db) ==
    IF j > k THEN db
    ELSE dispatch(uniqueId, gen, f, j + 1, k,
                  batchLoadChunks(uniqueId, share(gen, f, j), db).db)

\* loader.emit('incrementalChunkAvailable', generator): every listener
\* registered on the instance at line 153 is invoked
emit(loader, n, f) ==
    LET uniqueId == getUniqueId(loader)
    IN  /\ subs[loader] > 0
        /\ runs < MaxRuns + MaxEmits
        /\ runs' = runs + 1
        /\ vectorDb' = dispatch(uniqueId, Generator(runs + 1, n), f, 1, subs[loader], vectorDb)
        /\ tainted' = tainted \cup {uniqueId}
        /\ last' = [op |-> "emit", id |-> uniqueId, loader |-> loader,
                    n |-> n, args |-> <<>>, ret |-> FALSE,
                    entriesAdded |-> n,
                    hadRecord |-> FALSE, prev |-> 0, removed |-> 0,
                    thrown |-> FALSE, failAt |-> 0, handlerRuns |-> subs[loader],
                    embedCalls |-> <<>>]
        /\ UNCHANGED <<cacheConfigured, dbReliable, cache, loaders, subs>>
        /\ UNCHANGED queryVars
        /\ UNCHANGED lifeVars

deleteLoader(uniqueLoaderId, args, ok) ==
    LET e == deleteLoaderEffect(CurrentState, uniqueLoaderId, args, ok)
    IN  /\ vectorDb' = e.db
        /\ cache' = e.cache
        /\ loaders' = e.loaders
        /\ last' = [op |-> "deleteLoader", id |-> uniqueLoaderId, loader |-> "none",
                    n |-> 0, args |-> args, ret |-> e.ret,
                    entriesAdded |-> 0,
                    hadRecord |-> FALSE, prev |-> 0,
                    removed |-> getVectorCount(vectorDb) - getVectorCount(e.db),
                    thrown |-> FALSE, failAt |-> 0, handlerRuns |-> 0, embedCalls |-> <<>>]
        /\ UNCHANGED <<cacheConfigured, dbReliable, subs, runs, tainted>>
        /\ UNCHANGED queryVars
        /\ UNCHANGED lifeVars

deleteAllEmbeddings(args) ==
    LET e == deleteAllEmbeddingsEffect(vectorDb, args)
    IN  /\ vectorDb' = e.db
        /\ tainted' = IF areYouSureOf(args) THEN LoaderIds ELSE tainted
        /\ last' = [op |-> "deleteAllEmbeddings", id |-> "none", loader |-> "none",
                    n |-> 0, args |-> args, ret |-> e.ret,
                    entriesAdded |-> 0,
                    hadRecord |-> FALSE, prev |-> 0,
                    removed |-> getVectorCount(vectorDb) - getVectorCount(e.db),
                    thrown |-> FALSE, failAt |-> 0, handlerRuns |-> 0, embedCalls |-> <<>>]
        /\ UNCHANGED <<cacheConfigured, dbReliable, cache, loaders, subs, runs>>
        /\ UNCHANGED queryVars
        /\ UNCHANGED lifeVars

ConfirmArgs == {<<>>, <<FALSE>>, <<TRUE>>}

AddLoaderThrows == \E loader \in Instances, n \in 1..MaxChunks, ok \in DeleteOutcomes,
                      failAt \in 1..MaxChunks :
                       addLoaderThrows(loader, n, ok, failAt)

AddLoader == \E loader \in Instances, n \in 0..MaxChunks, ok \in DeleteOutcomes :
                 addLoader(loader, n, ok)
IncrementalLoader == \E loader \in Instances, n \in 0..MaxChunks :
                         incrementalLoader(loader, n)
DeleteLoader == \E id \in LoaderIds, args \in ConfirmArgs, ok \in DeleteOutcomes :
                    deleteLoader(id, args, ok)
DeleteAllEmbeddings == \E args \in ConfirmArgs : deleteAllEmbeddings(args)
Emit == \E loader \in Instances, n \in 0..MaxChunks :
            \E f \in [1..n -> 1..subs[loader]] : emit(loader, n, f)


\* ---------------------------------------------------------------- retrieval
Contents == {"a", "b"}
\* scores times ten
Scores == {3, 4, 6, 9}
CutOffs == {4, 5}

\* a list of search results made from (pageContent, score) pairs; metadata
\* identifies the stored chunk a result came from
ResultSet(f) ==
    [i \in 1..Len(f) |-> [pageContent |-> f[i][1], score |-> f[i][2], metadata |-> i]]

\* variant: the cut-off is inclusive
filterRelevant_atLeast(rs, cutOff) == SelectSeq(rs, LAMBDA result : result.score >= cutOff)

\* .filter((result) => result.score > this.embeddingRelevanceCutOff)
filterRelevant(rs, cutOff) == SelectSeq(rs, LAMBDA result : result.score > cutOff)

\* Array.prototype.sort is stable: x goes behind every element that does not
\* compare after it under (a, b) => b.score - a.score
RECURSIVE insertSorted(_, _)
insertSorted(sorted, x) ==
    IF sorted = <<>> THEN <<x>>
    ELSE IF x.score - Head(sorted).score > 0
         THEN <<x>> \o sorted
         ELSE <<Head(sorted)>> \o insertSorted(Tail(sorted), x)

RECURSIVE sortByScore(_)
sortByScore(rs) ==
    IF rs = <<>> THEN <<>>
    ELSE insertSorted(sortByScore(SubSeq(rs, 1, Len(rs) - 1)), rs[Len(rs)])

\* .slice(0, this.searchResultCount)
slice(rs, k) == SubSeq(rs, 1, IF Len(rs) < k THEN Len(rs) ELSE k)

getEmbeddings(rs, cutOff, k) == slice(sortByScore(filterRelevant(rs, cutOff)), k)

\* Map.prototype.set: a new key is appended, an existing key keeps its place
\* and takes the new value
RECURSIVE mapSet(_, _, _)
mapSet(entries, key, value) ==
    IF entries = <<>> THEN << <<key, value>> >>
    ELSE IF Head(entries)[1] = key
         THEN << <<key, value>> >> \o Tail(entries)
         ELSE <<Head(entries)>> \o mapSet(Tail(entries), key, value)

RECURSIVE newMap(_)
newMap(pairs) ==
    IF pairs = <<>> THEN <<>>
    ELSE mapSet(newMap(SubSeq(pairs, 1, Len(pairs) - 1)),
                pairs[Len(pairs)][1], pairs[Len(pairs)][2])

mapValues(entries) == [i \in 1..Len(entries) |-> entries[i][2]]

\* variant: the map is keyed by the item, not by its pageContent
uniqueByPageContent_byItem(rawContext) ==
    mapValues(newMap([i \in 1..Len(rawContext) |-> <<rawContext[i], rawContext[i]>>]))

\* [...new Map(rawContext.map((item) => [item.pageContent, item])).values()]
uniqueByPageContent(rawContext) ==
    mapValues(newMap([i \in 1..Len(rawContext) |-> <<rawContext[i].pageContent, rawContext[i]>>]))

getContext(rs, cutOff, k) == uniqueByPageContent(getEmbeddings(rs, cutOff, k))

\* lines 190-195: the store (and the reranker, when configured) hand back a
\* result set; every list of results is possible
SimilaritySearch ==
    /\ qop = "none"
    /\ \E n \in 0..MaxResults : \E f \in [1..n -> Contents \X Scores] :
           unfilteredResultSet' = ResultSet(f)
    /\ qop' = "search"
    /\ UNCHANGED <<searchResultCount, embeddingRelevanceCutOff, qret>>
    /\ UNCHANGED ingestVars
    /\ UNCHANGED lifeVars

GetEmbeddings ==
    /\ qop = "search"
    /\ qop' = "getEmbeddings"
    /\ qret' = getEmbeddings(unfilteredResultSet, embeddingRelevanceCutOff, searchResultCount)
    /\ UNCHANGED <<searchResultCount, embeddingRelevanceCutOff, unfilteredResultSet>>
    /\ UNCHANGED ingestVars
    /\ UNCHANGED lifeVars

GetContext ==
    /\ qop = "search"
    /\ qop' = "getContext"
    /\ qret' = getContext(unfilteredResultSet, embeddingRelevanceCutOff, searchResultCount)
    /\ UNCHANGED <<searchResultCount, embeddingRelevanceCutOff, unfilteredResultSet>>
    /\ UNCHANGED ingestVars
    /\ UNCHANGED lifeVars

\* ---------------------------------------------------------------- lifecycle
\* a number or undefined
Undefined == [defined |-> FALSE, value |-> 0]
Number(d) == [defined |-> TRUE, value |-> d]
Dimensions == {768, 1024}

\* new FireworksEmbedding(params): line 16 assigns the field to itself
FireworksEmbedding(params) == [params |-> params, dimension |-> Undefined]
getDimensions(e) == e.dimension

\* getUnique(this.loaders, 'getUniqueId'): one loader per id, the last
\* registered one
RECURSIVE getUnique(_)
getUnique(ls) ==
    IF ls = <<>> THEN <<>>
    ELSE IF \E j \in 2..Len(ls) : getUniqueId(ls[j]) = getUniqueId(Head(ls))
         THEN getUnique(Tail(ls))
         ELSE <<Head(ls)>> \o getUnique(Tail(ls))

NoTask == [pc |-> "idle", n |-> 0, run |-> 0, hadRecord |-> FALSE, prev |-> 0,
           removed |-> 0, newInserts |-> 0, formattedCount |-> 0, embedCalls |-> <<>>]

NoCollaborators == [model |-> FALSE, cache |-> FALSE,
                    vectorDbInit |-> <<>>, createVectorIndex |-> <<>>]

\* line 59
InitModel ==
    /\ ipc = "new"
    /\ ipc' = "model"
    /\ collaborators' = [collaborators EXCEPT !.model = TRUE]
    /\ UNCHANGED <<iter, task, embedding>>
    /\ UNCHANGED ingestVars
    /\ UNCHANGED queryVars

\* line 62
InitVectorDb ==
    /\ ipc = "model"
    /\ ipc' = "vectorDb"
    /\ collaborators' = [collaborators EXCEPT
                           !.vectorDbInit = Append(@, getDimensions(embedding))]
    /\ UNCHANGED <<iter, task, embedding>>
    /\ UNCHANGED ingestVars
    /\ UNCHANGED queryVars

\* lines 65-68
InitCache ==
    /\ ipc = "vectorDb"
    /\ ipc' = "cache"
    /\ collaborators' = [collaborators EXCEPT !.cache = cacheConfigured]
    /\ UNCHANGED <<iter, task, embedding>>
    /\ UNCHANGED ingestVars
    /\ UNCHANGED queryVars

\* line 70, and the for-await of line 71 taking the array it will walk
InitUnique ==
    /\ ipc = "cache"
    /\ ipc' = "loading"
    /\ loaders' = getUnique(loaders)
    /\ iter' = getUnique(loaders)
    /\ task' = [k \in 1..Len(getUnique(loaders)) |-> NoTask]
    /\ UNCHANGED <<embedding, collaborators>>
    /\ UNCHANGED <<cacheConfigured, dbReliable, vectorDb, cache, subs, runs, tainted, last>>
    /\ UNCHANGED queryVars

\* variant: addLoader is called without await
awaitsPrevious_noAwait(t, k) == TRUE

\* line 72: the k-th iteration starts when the addLoader call of the
\* iteration before it has settled
awaitsPrevious(t, k) == IF k = 1 THEN TRUE ELSE t[k - 1].pc = "done"

\* addLoader lines 131-135 for iter[k]: loader.init() and getChunks()
taskInit(k, n) ==
    /\ ipc = "loading"
    /\ task[k].pc = "idle"
    /\ IF k = 1 THEN TRUE ELSE task[k - 1].pc # "idle"
    /\ awaitsPrevious(task, k)
    /\ runs' = runs + 1
    /\ task' = [task EXCEPT ![k] = [@ EXCEPT !.pc = "initialized", !.n = n,
                                             !.run = runs + 1]]
    /\ UNCHANGED <<ipc, iter, embedding, collaborators>>
    /\ UNCHANGED <<cacheConfigured, dbReliable, vectorDb, cache, loaders, subs, tainted, last>>
    /\ UNCHANGED queryVars

\* addLoader lines 137-144 for iter[k]
taskCheck(k, ok) ==
    LET uniqueId == getUniqueId(iter[k])
        hadRecord == cacheConfigured /\ hasLoader(cache, uniqueId)
        previousChunkCount == IF hadRecord THEN cache[uniqueId] ELSE 0
        st1 == IF hadRecord /\ previousChunkCount > 0
               THEN deleteLoaderEffect(CurrentState, uniqueId, <<TRUE>>, ok)
               ELSE [db |-> vectorDb, cache |-> cache, loaders |-> loaders, ret |-> FALSE]
    IN  /\ task[k].pc = "initialized"
        /\ vectorDb' = st1.db
        /\ cache' = st1.cache
        /\ loaders' = st1.loaders
        /\ task' = [task EXCEPT ![k] = [@ EXCEPT !.pc = "checked",
                        !.hadRecord = hadRecord, !.prev = previousChunkCount,
                        !.removed = getVectorCount(vectorDb) - getVectorCount(st1.db)]]
        /\ UNCHANGED <<ipc, iter, embedding, collaborators>>
        /\ UNCHANGED <<cacheConfigured, dbReliable, subs, runs, tainted, last>>
        /\ UNCHANGED queryVars

\* addLoader line 146 for iter[k]
taskLoad(k) ==
    LET uniqueId == getUniqueId(iter[k])
        r == batchLoadChunks(uniqueId, Generator(task[k].run, task[k].n), vectorDb)
    IN  /\ task[k].pc = "checked"
        /\ vectorDb' = r.db
        /\ task' = [task EXCEPT ![k] = [@ EXCEPT !.pc = "loaded",
                        !.newInserts = r.newInserts,
                        !.formattedCount = Len(r.formattedChunks),
                        !.embedCalls = r.embedCalls]]
        /\ UNCHANGED <<ipc, iter, embedding, collaborators>>
        /\ UNCHANGED <<cacheConfigured, dbReliable, cache, loaders, subs, runs, tainted, last>>
        /\ UNCHANGED queryVars

\* addLoader lines 147-160 for iter[k]
taskRecord(k) ==
    LET loader == iter[k]
        uniqueId == getUniqueId(loader)
    IN  /\ task[k].pc = "loaded"
        /\ cache' = IF cacheConfigured
                    THEN cacheAddLoader(cache, uniqueId, task[k].formattedCount)
                    ELSE cache
        /\ subs' = IF canIncrementallyLoad(loader)
                   THEN [subs EXCEPT ![loader] = @ + 1]
                   ELSE subs
        /\ loaders' = Append(filterLoaders(loaders, uniqueId), loader)
        /\ last' = [op |-> "addLoader", id |-> uniqueId, loader |-> loader,
                    n |-> task[k].n, args |-> <<>>, ret |-> FALSE,
                    entriesAdded |-> task[k].newInserts,
                    hadRecord |-> task[k].hadRecord,
                    prev |-> task[k].prev,
                    removed |-> task[k].removed,
                    thrown |-> FALSE, failAt |-> 0, handlerRuns |-> 0,
                    embedCalls |-> task[k].embedCalls]
        /\ task' = [task EXCEPT ![k] = [@ EXCEPT !.pc = "done"]]
        /\ UNCHANGED <<ipc, iter, embedding, collaborators>>
        /\ UNCHANGED <<cacheConfigured, dbReliable, vectorDb, runs, tainted>>
        /\ UNCHANGED queryVars

TaskInit == \E k \in 1..Len(iter), n \in 0..MaxChunks : taskInit(k, n)
TaskCheck == \E k \in 1..Len(iter), ok \in DeleteOutcomes : taskCheck(k, ok)
TaskLoad == \E k \in 1..Len(iter) : taskLoad(k)
TaskRecord == \E k \in 1..Len(iter) : taskRecord(k)

\* lines 73-74: the loop is over
InitFinish ==
    /\ ipc = "loading"
    /\ IF Len(iter) = 0 THEN TRUE ELSE task[Len(iter)].pc # "idle"
    /\ awaitsPrevious(task, Len(iter) + 1)
    /\ ipc' = "done"
    /\ UNCHANGED <<iter, task, embedding, collaborators>>
    /\ UNCHANGED ingestVars
    /\ UNCHANGED queryVars

\* lines 225-227
CreateVectorIndex ==
    /\ ipc = "done"
    /\ collaborators.createVectorIndex = <<>>
    /\ collaborators' = [collaborators EXCEPT
                           !.createVectorIndex = Append(@, getDimensions(embedding))]
    /\ UNCHANGED <<ipc, iter, task, embedding>>
    /\ UNCHANGED ingestVars
    /\ UNCHANGED queryVars

\* ---------------------------------------------------------------- specification
InitQueryIdle ==
    /\ searchResultCount = 1
    /\ embeddingRelevanceCutOff = 5
    /\ unfilteredResultSet = <<>>
    /\ qop = "none"
    /\ qret = <<>>

InitIngest ==
    /\ cacheConfigured \in BOOLEAN
    /\ vectorDb = EmptyDb
    /\ cache = NoCache
    /\ loaders = <<>>
    /\ subs = [l \in Instances |-> 0]
    /\ runs = 0
    /\ tainted = {}
    /\ last = NoCall

\* init() has run with no configured loader
InitServing ==
    /\ ipc = "done"
    /\ iter = <<>>
    /\ task = <<>>
    /\ embedding = FireworksEmbedding([dimension |-> 768])
    /\ collaborators = [model |-> TRUE, cache |-> cacheConfigured,
                        vectorDbInit |-> <<getDimensions(embedding)>>,
                        createVectorIndex |-> <<>>]

\* the vector store honours every deleteKeys
Init == InitIngest /\ dbReliable = TRUE /\ InitQueryIdle /\ InitServing

\* vectorDb.deleteKeys may return false
InitFaulty == InitIngest /\ dbReliable = FALSE /\ InitQueryIdle /\ InitServing

Next ==
    \/ AddLoader
    \/ IncrementalLoader
    \/ DeleteLoader
    \/ DeleteAllEmbeddings

Spec == Init /\ [][Next]_vars

SpecFaulty == InitFaulty /\ [][Next]_vars

\* ingestion with failing embedding or insert calls
NextFail ==
    \/ AddLoader
    \/ AddLoaderThrows
    \/ IncrementalLoader

SpecFail == Init /\ [][NextFail]_vars

\* registrations and notifications
NextEmit ==
    \/ AddLoader
    \/ Emit

SpecEmit == Init /\ [][NextEmit]_vars

\* from construction: init() over every configured loader list, then the
\* public operations
InitBuilt(dimensions) ==
    /\ cacheConfigured \in BOOLEAN
    /\ dbReliable = TRUE
    /\ vectorDb = EmptyDb
    /\ cache = NoCache
    /\ \E m \in 0..MaxConfigured : loaders \in [1..m -> Instances]
    /\ subs = [l \in Instances |-> 0]
    /\ runs = 0
    /\ tainted = {}
    /\ last = NoCall
    /\ InitQueryIdle
    /\ ipc = "new"
    /\ iter = <<>>
    /\ task = <<>>
    /\ \E d \in dimensions : embedding = FireworksEmbedding([dimension |-> d])
    /\ collaborators = NoCollaborators

InitConstructed == InitBuilt({768})

Serving ==
    /\ ipc = "done"
    /\ \/ AddLoader
       \/ IncrementalLoader
       \/ DeleteLoader

NextInit ==
    \/ InitModel
    \/ InitVectorDb
    \/ InitCache
    \/ InitUnique
    \/ TaskInit
    \/ TaskCheck
    \/ TaskLoad
    \/ TaskRecord
    \/ InitFinish
    \/ Serving

SpecInit == InitConstructed /\ [][NextInit]_vars

\* init() and createVectorIndex() over every configured dimension
InitDims == InitBuilt(Dimensions)

NextDims ==
    \/ InitModel
    \/ InitVectorDb
    \/ InitCache
    \/ InitUnique
    \/ TaskInit
    \/ TaskCheck
    \/ TaskLoad
    \/ TaskRecord
    \/ InitFinish
    \/ CreateVectorIndex

SpecDims == InitDims /\ [][NextDims]_vars

\* one retrieval, over every configuration and result set
InitQuery ==
    /\ cacheConfigured = FALSE
    /\ dbReliable = TRUE
    /\ vectorDb = EmptyDb
    /\ cache = NoCache
    /\ loaders = <<>>
    /\ subs = [l \in Instances |-> 0]
    /\ runs = 0
    /\ tainted = {}
    /\ last = NoCall
    /\ searchResultCount \in 1..MaxK
    /\ embeddingRelevanceCutOff \in CutOffs
    /\ unfilteredResultSet = <<>>
    /\ qop = "none"
    /\ qret = <<>>
    /\ InitServing

NextQuery ==
    \/ SimilaritySearch
    \/ GetEmbeddings
    \/ GetContext

SpecQuery == InitQuery /\ [][NextQuery]_vars

\* ================================================================ properties
sureOf(call) == IF Len(call.args) = 0 THEN FALSE ELSE call.args[1]

\* the chunks of a loader id in the store, as a bag
ChunksOf(db, id) == [c \in {d \in DOMAIN db : d.metadata.uniqueLoaderId = id} |-> db[c]]

\* the chunks one addLoader run of n fragments formats
FormattedRun(id, run, n) ==
    { [pageContent |-> <<run, k>>,
       metadata |-> [uniqueLoaderId |-> id, id |-> <<id, k - 1>>]] : k \in 1..n }

\* C1: idempotent replacement. With a cache and a store that honours every
\* deleteKeys, and no incremental run or reset for the id, after an addLoader
\* the store holds for that id exactly the fragments of that run, once each.
C1_IdempotentReplacement ==
    (last.op = "addLoader" /\ cacheConfigured /\ dbReliable /\ last.id \notin tainted)
        => ChunksOf(vectorDb, last.id) = SetToBag(FormattedRun(last.id, runs, last.n))

\* C2: after addLoader with a cache, the loader's record holds chunkCount = N,
\* the number of fragments the run formatted.
C2_RecordCountsAllFragments ==
    (last.op = "addLoader" /\ cacheConfigured)
        => (hasLoader(cache, last.id) /\ cache[last.id] = last.n)

\* C3: for a loader with no prior cache record, addLoader returns
\* entriesAdded = N and the store's count grows by exactly N.
C3_EntriesAddedEqualsN ==
    [][ (last'.op = "addLoader" /\ runs' = runs + 1 /\ ~last'.hadRecord)
          => /\ last'.entriesAdded = last'.n
             /\ getVectorCount(vectorDb') = getVectorCount(vectorDb) + last'.n ]_vars

C3_Witness ==
    /\ last.op = "addLoader"
    /\ ~last.hadRecord
    /\ last.n > DEFAULT_INSERT_BATCH_SIZE
    /\ last.entriesAdded = last.n
    /\ getVectorCount(vectorDb) > last.n

\* C4: addLoader on an id whose record has count P > 0 removes exactly P
\* stored fragments of that id and inserts M: the count changes by M - P.
C4_NetChangeMMinusP ==
    [][ (last'.op = "addLoader" /\ runs' = runs + 1 /\ last'.hadRecord /\ last'.prev > 0)
          => /\ last'.removed = last'.prev
             /\ getVectorCount(vectorDb') = getVectorCount(vectorDb) + last'.n - last'.prev ]_vars

\* C5: deleteLoader and deleteAllEmbeddings without confirmation (false or
\* omitted) return false and leave store, cache and tracked loaders unchanged.
C5_UnconfirmedDeleteIsNoOp ==
    [][ (last'.op \in {"deleteLoader", "deleteAllEmbeddings"} /\ ~sureOf(last'))
          => /\ last'.ret = FALSE
             /\ vectorDb' = vectorDb
             /\ cache' = cache
             /\ loaders' = loaders ]_vars

C5_Witness ==
    /\ last.op = "deleteLoader"
    /\ last.args = <<>>
    /\ last.ret = FALSE
    /\ TaggedCount(vectorDb, last.id) > 0
    /\ hasLoader(cache, last.id)
    /\ \E i \in 1..Len(loaders) : getUniqueId(loaders[i]) = last.id

\* C6: a confirmed deleteLoader(id) removes every stored fragment tagged with
\* id and no other: the count drops by the number of fragments of that id.
C6_DeleteLoaderRemovesExactlyTagged ==
    [][ (last'.op = "deleteLoader" /\ sureOf(last'))
          => /\ DOMAIN vectorDb' = {c \in DOMAIN vectorDb : c.metadata.uniqueLoaderId # last'.id}
             /\ \A c \in DOMAIN vectorDb' : vectorDb'[c] = vectorDb[c]
             /\ getVectorCount(vectorDb') =
                    getVectorCount(vectorDb) - getVectorCount(ChunksOf(vectorDb, last'.id)) ]_vars

\* 3 fragments for id1, 2 for id2 (no cache), then deleteLoader(id2, true): 3
C6_Witness ==
    /\ ~cacheConfigured
    /\ last.op = "deleteLoader" /\ last.id = "id2" /\ last.args = <<TRUE>> /\ last.ret
    /\ last.removed = 2
    /\ getVectorCount(vectorDb) = 3
    /\ getVectorCount(ChunksOf(vectorDb, "id1")) = 3

\* C7: in a confirmed deleteLoader the cache record is removed and the loader
\* dropped only when deleteKeys succeeded; when it returns false the call
\* returns false and cache and tracked loaders are unchanged.
C7_FailedDeleteLeavesTracking ==
    [][ (last'.op = "deleteLoader" /\ sureOf(last'))
          => IF last'.ret
             THEN /\ ~hasLoader(cache', last'.id)
                  /\ \A i \in 1..Len(loaders') : getUniqueId(loaders'[i]) # last'.id
             ELSE /\ cache' = cache
                  /\ loaders' = loaders ]_vars

\* C8: retrieval returns at most searchResultCount fragments, each with
\* score > cut-off; cut-off 0.5, K = 2, scores [0.9, 0.6, 0.4, 0.3] give the
\* fragments scored 0.9 and 0.6 in that order.
ScoresOf(rs) == [i \in 1..Len(rs) |-> rs[i].score]

C8_TopKAboveCutOff ==
    (qop \in {"getEmbeddings", "getContext"})
        => /\ Len(qret) <= searchResultCount
           /\ \A i \in 1..Len(qret) : qret[i].score > embeddingRelevanceCutOff
           /\ \A i \in 1..Len(qret) : \E j \in 1..Len(unfilteredResultSet) :
                  qret[i] = unfilteredResultSet[j]
           /\ ( /\ ScoresOf(unfilteredResultSet) = <<9, 6, 4, 3>>
                /\ embeddingRelevanceCutOff = 5
                /\ searchResultCount = 2
                /\ (qop = "getContext" =>
                       unfilteredResultSet[1].pageContent # unfilteredResultSet[2].pageContent) )
              => qret = <<unfilteredResultSet[1], unfilteredResultSet[2]>>

C8_Witness ==
    /\ qop = "getContext"
    /\ ScoresOf(unfilteredResultSet) = <<9, 6, 4, 3>>
    /\ embeddingRelevanceCutOff = 5
    /\ searchResultCount = 2
    /\ ScoresOf(qret) = <<9, 6>>

\* the first occurrence of every pageContent, in order
RECURSIVE FirstOccurrences(_)
FirstOccurrences(rs) ==
    IF rs = <<>> THEN <<>>
    ELSE LET init == SubSeq(rs, 1, Len(rs) - 1)
             x == rs[Len(rs)]
         IN  IF \E i \in 1..Len(init) : init[i].pageContent = x.pageContent
             THEN FirstOccurrences(init)
             ELSE Append(FirstOccurrences(init), x)

\* C9: getContext keeps, for every pageContent occurring more than once, the
\* first (highest-ranked) occurrence with its own metadata and score, in the
\* order of first occurrences.
C9_FirstOccurrenceWins ==
    (qop = "getContext")
        => qret = FirstOccurrences(getEmbeddings(unfilteredResultSet,
                                                 embeddingRelevanceCutOff,
                                                 searchResultCount))

\* C10: the list returned by getContext never holds two fragments with the
\* same pageContent.
C10_NoDuplicatePageContent ==
    (qop = "getContext")
        => \A i, j \in 1..Len(qret) :
               i # j => qret[i].pageContent # qret[j].pageContent

C10_Witness ==
    /\ qop = "getContext"
    /\ Len(qret) = 1
    /\ Len(getEmbeddings(unfilteredResultSet, embeddingRelevanceCutOff,
                         searchResultCount)) = 2

\* the loader id has an instance in the tracked list
Tracked(ls, id) == \E k \in 1..Len(ls) : getUniqueId(ls[k]) = id

RECURSIVE Flatten(_)
Flatten(ss) == IF ss = <<>> THEN <<>> ELSE Head(ss) \o Flatten(Tail(ss))

\* C13: bounded-batch embedding. In every ingestion run over N fragments each
\* embedDocuments call carries between 1 and B texts, every fragment is sent
\* in exactly one call (the calls, in order, are the sequence cut into
\* pieces), and there are ceil(N / B) calls.
C13_BoundedBatchEmbedding ==
    (last.op \in {"addLoader", "incrementalLoader"} /\ ~last.thrown)
        => /\ \A c \in 1..Len(last.embedCalls) :
                  /\ Len(last.embedCalls[c]) >= 1
                  /\ Len(last.embedCalls[c]) <= DEFAULT_INSERT_BATCH_SIZE
           /\ Flatten(last.embedCalls) = [k \in 1..last.n |-> <<runs, k>>]
           /\ Len(last.embedCalls) =
                  (last.n + DEFAULT_INSERT_BATCH_SIZE - 1) \div DEFAULT_INSERT_BATCH_SIZE

C13_Witness ==
    /\ last.op = "incrementalLoader"
    /\ last.n > DEFAULT_INSERT_BATCH_SIZE
    /\ Len(last.embedCalls) >= 2
    /\ Len(last.embedCalls[Len(last.embedCalls)]) < DEFAULT_INSERT_BATCH_SIZE

\* C14: handling an incremental notification only appends to the store: no
\* stored chunk is removed, the n new ones are added, and the cache records
\* and the tracked loaders are unchanged.
C14_IncrementalOnlyAppends ==
    [][ (last'.op = "incrementalLoader" /\ runs' = runs + 1)
          => /\ \A c \in DOMAIN vectorDb : c \in DOMAIN vectorDb' /\ vectorDb'[c] >= vectorDb[c]
             /\ getVectorCount(vectorDb') = getVectorCount(vectorDb) + last'.n
             /\ cache' = cache
             /\ loaders' = loaders ]_vars

C14_Witness ==
    /\ last.op = "incrementalLoader"
    /\ last.n > 0
    /\ cacheConfigured
    /\ hasLoader(cache, last.id)
    /\ getVectorCount(ChunksOf(vectorDb, last.id)) > last.n

\* C16: fragment ids are unique reference keys: no two fragments in the store
\* carry the same metadata.id.
C16_FragmentIdsUnique ==
    /\ \A c \in DOMAIN vectorDb : vectorDb[c] = 1
    /\ \A c, d \in DOMAIN vectorDb : c # d => c.metadata.id # d.metadata.id

\* C17: once a loader id has been deleted (and not registered again), a
\* notification of the deleted loader instance inserts nothing.
C17_NoInsertAfterDelete ==
    [][ (last'.op = "incrementalLoader" /\ runs' = runs + 1 /\ ~Tracked(loaders, last'.id))
          => vectorDb' = vectorDb ]_vars

\* C19: the list returned by getContext is ordered by score, non-increasing.
C19_ContextSortedByScore ==
    (qop = "getContext")
        => \A i, j \in 1..Len(qret) : i < j => qret[i].score >= qret[j].score

\* C12: when batch j of an addLoader run fails, the failure reaches the caller,
\* the fragments of the batches before j are in the store and none of batch j
\* or later, no cache record is written, no subscription registered, the loader
\* is not added to the tracked list; other loaders' fragments and records are
\* unchanged.
C12_FailedBatchNoRollback ==
    [][ (last'.op = "addLoader" /\ last'.thrown /\ runs' = runs + 1)
          => LET id == last'.id
                 kept == (last'.failAt - 1) * DEFAULT_INSERT_BATCH_SIZE
                 frag(k) == [pageContent |-> <<runs', k>>,
                             metadata |-> [uniqueLoaderId |-> id, id |-> <<id, k - 1>>]]
             IN  /\ \A k \in 1..last'.n :
                        IF k <= kept
                        THEN frag(k) \in DOMAIN vectorDb' /\ vectorDb'[frag(k)] = 1
                        ELSE frag(k) \notin DOMAIN vectorDb'
                 /\ \A o \in LoaderIds \ {id} :
                        /\ ChunksOf(vectorDb', o) = ChunksOf(vectorDb, o)
                        /\ hasLoader(cache, o) => hasLoader(cache', o)
                 /\ \A x \in DOMAIN cache' : x \in DOMAIN cache /\ cache'[x] = cache[x]
                 /\ subs' = subs
                 /\ loaders' \in {loaders, filterLoaders(loaders, id)} ]_vars

C12_Witness ==
    /\ last.op = "addLoader"
    /\ last.thrown
    /\ last.failAt = 2
    /\ last.hadRecord
    /\ getVectorCount(ChunksOf(vectorDb, last.id)) = DEFAULT_INSERT_BATCH_SIZE
    /\ ~hasLoader(cache, last.id)

\* C18: each notification emitted by a loader is handled by exactly one
\* batch-embed-and-insert run and each of its fragments is inserted exactly
\* once, however many times the instance was passed to addLoader.
C18_OneRunPerNotification ==
    (last.op = "emit")
        => /\ last.handlerRuns = 1
           /\ \A k \in 1..last.n :
                  getVectorCount([c \in {d \in DOMAIN vectorDb : d.pageContent = <<runs, k>>}
                                    |-> vectorDb[c]]) = 1

\* C11: after init() completes, through any interleaving of addLoader,
\* deleteLoader and incremental notifications, the tracked loader list holds at
\* most one loader per uniqueLoaderId, and after a successful addLoader(l) the
\* entry tracked for l's id is the instance l.
C11_OneLoaderPerId ==
    /\ (ipc = "done")
         => \A j, k \in 1..Len(loaders) :
                getUniqueId(loaders[j]) = getUniqueId(loaders[k]) => j = k
    /\ (last.op = "addLoader" /\ ~last.thrown)
         => /\ \E k \in 1..Len(loaders) : loaders[k] = last.loader
            /\ \A k \in 1..Len(loaders) :
                   getUniqueId(loaders[k]) = last.id => loaders[k] = last.loader

C11_Witness ==
    /\ ipc = "done"
    /\ Len(iter) = 1
    /\ iter[1] = "q"
    /\ last.op = "addLoader"
    /\ last.loader = "p"
    /\ runs = 2
    /\ loaders = <<"p">>

\* C15: during init() the configured loaders are ingested one after another:
\* no loader's initialization, cache check, insert or cache-record write begins
\* before the previous loader's addLoader has completed, and none begins before
\* the model, the vector store and the cache have been initialized.
C15_SequentialInitialIngestion ==
    \A k \in 1..Len(task) :
        (task[k].pc # "idle")
            => /\ collaborators.model
               /\ collaborators.vectorDbInit # <<>>
               /\ cacheConfigured => collaborators.cache
               /\ \A j \in 1..(k - 1) : task[j].pc = "done"

C15_Witness ==
    /\ ipc = "loading"
    /\ Len(task) = 2
    /\ task[1].pc = "done"
    /\ task[2].pc = "initialized"
    /\ cacheConfigured
    /\ hasLoader(cache, getUniqueId(iter[1]))

\* C20: the dimension passed to vectorDb.init by init() and the one passed to
\* vectorDb.createVectorIndex are the same defined integer, the dimension the
\* embedding provider was configured with.
C20_DimensionConsistency ==
    /\ \A i \in 1..Len(collaborators.vectorDbInit) :
           collaborators.vectorDbInit[i] = Number(embedding.params.dimension)
    /\ \A i \in 1..Len(collaborators.createVectorIndex) :
           collaborators.createVectorIndex[i] = Number(embedding.params.dimension)

====
